---- MODULE Spec2Model ----
(***************************************************************************)
(* Model of the AI Web Builder agent (src/agent/main.py): the AIWebAgent   *)
(* object (credential, conversation history, last generated code), its     *)
(* operations, and the response extractor.                                 *)
(*                                                                         *)
(* Texts (requests, replies, code, explanations) are sequences of          *)
(* one-character strings, so that the regular expressions and str.strip()  *)
(* of the source are computed character by character.                      *)
(***************************************************************************)
EXTENDS Integers, Sequences, FiniteSets, TLC

VARIABLES
    api_key,               \* AIWebAgent.api_key: None, "" or a key
    conversation_history,  \* AIWebAgent.conversation_history: list of Message
    generated_code,        \* AIWebAgent.generated_code
    clock,                 \* the wall clock read by datetime.now()
    pc,                    \* per caller: position in generate_website
    user_request,          \* per caller: argument user_request
    messages,              \* per caller: local variable messages
    response_text,         \* per caller: local variable response_text
    result,                \* per caller: the returned dictionary
    response,              \* argument of a direct extract_code_from_response call
    extracted,             \* its returned tuple (explanation, code)
    api_calls,             \* per caller: requests posted by _call_openai_api
    http_response         \* server: the last response of POST /api/clear

vars == <<api_key, conversation_history, generated_code, clock, pc,
          user_request, messages, response_text, result, response, extracted,
          api_calls, http_response>>

agent_vars == <<api_key, conversation_history, generated_code, clock, pc,
                user_request, messages, response_text, result, api_calls,
                http_response>>

----------------------------------------------------------------------------
(* Bounds of the model.                                                    *)

NumTasks == 2        \* callers of the agent
MaxHistory == 5      \* longest conversation_history explored by Spec
MaxClock == 1        \* latest clock reading explored by Spec
MaxSegs == 4         \* longest extractor input, in chunks
WindowMaxHistory == 12  \* longest conversation_history explored by WindowSpec

Tasks == 1..NumTasks

----------------------------------------------------------------------------
(* Text helpers.                                                           *)

Max(a, b) == IF a >= b THEN a ELSE b

\* Python slice s[a:b] with 0-based, half-open, already normalised indices.
Slice(s, a, b) == SubSeq(s, a + 1, b)

\* Characters removed by str.strip(): the whitespace of the model's alphabet.
Whitespace == {" ", "\n"}

RECURSIVE LStrip(_)
LStrip(s) ==
    IF s # <<>> /\ Head(s) \in Whitespace THEN LStrip(Tail(s)) ELSE s

RECURSIVE RStrip(_)
RStrip(s) ==
    IF s # <<>> /\ s[Len(s)] \in Whitespace
    THEN RStrip(SubSeq(s, 1, Len(s) - 1))
    ELSE s

\* str.strip()
Strip(s) == RStrip(LStrip(s))

----------------------------------------------------------------------------
(* The regular expressions of extract_code_from_response.                  *)

\* The backquote character is written "^": a TLA+ string cannot hold a backquote.
Backquote == "^"

\* The fence marker: three backquotes.
Fence == <<Backquote, Backquote, Backquote>>

\* r"^^^html\n" : the opening of the first pattern
HtmlOpen == Fence \o <<"h", "t", "m", "l", "\n">>

\* r"^^^\n" : the opening of the second pattern
GenericOpen == Fence \o <<"\n">>

\* r"\n^^^" : the end of both patterns
FenceClose == <<"\n">> \o Fence

\* Does the literal lit occur in s at 0-based offset i ?
LiteralAt(s, lit, i) ==
    /\ i >= 0
    /\ i + Len(lit) <= Len(s)
    /\ \A k \in 1..Len(lit) : s[i + k] = lit[k]

NoMatch == [found |-> FALSE, start |-> 0, body_start |-> 0, body_end |-> 0, end |-> 0]

\* A greedy ([\s\S]*) in place of the lazy one: the body runs to the last
\* closing literal.
RECURSIVE GreedyFrom(_, _, _)
GreedyFrom(s, close, j) ==
    IF j < 0 THEN -1
    ELSE IF LiteralAt(s, close, j) THEN j
    ELSE GreedyFrom(s, close, j - 1)

GreedyBody(s, close, j) ==
    LET k == GreedyFrom(s, close, Len(s) - Len(close))
    IN  IF k >= j THEN k ELSE -1

\* The lazy ([\s\S]*?) followed by the closing literal, from offset j on:
\* the body grows one character at a time until the closing literal matches.
RECURSIVE LazyBody(_, _, _)
LazyBody(s, close, j) ==
    IF j + Len(close) > Len(s) THEN -1
    ELSE IF LiteralAt(s, close, j) THEN j
    ELSE LazyBody(s, close, j + 1)

\* re.search: the pattern is tried at offsets 0, 1, 2, ... and the first offset
\* at which it matches wins.
RECURSIVE SearchFrom(_, _, _, _)
SearchFrom(s, open, close, i) ==
    IF i + Len(open) + Len(close) > Len(s) THEN NoMatch
    ELSE IF LiteralAt(s, open, i) /\ LazyBody(s, close, i + Len(open)) >= 0
         THEN LET j == LazyBody(s, close, i + Len(open))
              IN  [found |-> TRUE, start |-> i, body_start |-> i + Len(open),
                   body_end |-> j, end |-> j + Len(close)]
         ELSE SearchFrom(s, open, close, i + 1)

\* re.search(open ([\s\S]*?) close, s)
ReSearch(s, open, close) == SearchFrom(s, open, close, 0)

\* match.group(0): the whole matched text.
WholeMatch(s, m) == Slice(s, m.start, m.end)

\* match.group(1): the text captured by ([\s\S]*?).
Group1(s, m) == Slice(s, m.body_start, m.body_end)

\* response[: match.start()]
BeforeMatch(s, m) == Slice(s, 0, m.start)

\* An extractor that also trims the text of a reply without a fence.
extract_code_trimming_all(text) ==
    LET code_block_match == ReSearch(text, HtmlOpen, FenceClose)
        generic_block_match == ReSearch(text, GenericOpen, FenceClose)
    IN  IF code_block_match.found
        THEN <<Strip(BeforeMatch(text, code_block_match)),
               Strip(Group1(text, code_block_match))>>
        ELSE IF generic_block_match.found
        THEN <<Strip(BeforeMatch(text, generic_block_match)),
               Strip(Group1(text, generic_block_match))>>
        ELSE <<Strip(text), <<>>>>

\* AIWebAgent.extract_code_from_response: the tuple (explanation, code).
extract_code_from_response(text) ==
    LET code_block_match == ReSearch(text, HtmlOpen, FenceClose)
        generic_block_match == ReSearch(text, GenericOpen, FenceClose)
    IN  IF code_block_match.found
        THEN <<Strip(BeforeMatch(text, code_block_match)),
               Strip(Group1(text, code_block_match))>>
        ELSE IF generic_block_match.found
        THEN <<Strip(BeforeMatch(text, generic_block_match)),
               Strip(Group1(text, generic_block_match))>>
        ELSE <<text, <<>>>>

Explanation(ex) == ex[1]
Code(ex) == ex[2]

----------------------------------------------------------------------------
(* The agent.                                                              *)

\* Python's None, as the value of api_key.
None == "None"

\* A truthiness test that only knows None ("if self.api_key is None").
HasKeyNoneOnly(k) == k # None

\* Truthiness of api_key: "if not self.api_key" rejects None and "".
HasKey(k) == k \notin {None, ""}

system_prompt == <<"You are an expert web developer ...">>

MissingKeyError == "API key not set. Please set your OpenAI API key."

ErrorPrefix == "Error generating website: "

\* Number of history messages sent as context: conversation_history[-10:].
ContextWindow == 10

\* The Message dataclass.
Message(role, content, timestamp) ==
    [role |-> role, content |-> content, timestamp |-> timestamp]

\* An add_message that inserts at the front (list.insert(0, message)).
add_message_front(history, role, content, now) ==
    <<Message(role, content, now)>> \o history

\* AIWebAgent.add_message, as the new value of conversation_history.
add_message(history, role, content, now) ==
    Append(history, Message(role, content, now))

\* The slice s[:n] in place of s[-n:].
FirstN(s, n) == SubSeq(s, 1, IF n <= Len(s) THEN n ELSE Len(s))

\* Python slice s[-n:] for n > 0.
LastN(s, n) == SubSeq(s, Max(1, Len(s) - n + 1), Len(s))

\* {"role": msg.role, "content": msg.content}
ToDict(msg) == [role |-> msg.role, content |-> msg.content]

\* The list "messages" built by generate_website.
BuildMessages(history) ==
    LET recent == LastN(history, ContextWindow)
    IN  <<[role |-> "system", content |-> system_prompt]>>
            \o [i \in 1..Len(recent) |-> ToDict(recent[i])]

\* The dictionaries returned by generate_website.
ErrorResult(msg) == [code |-> <<>>, explanation |-> <<>>, error |-> msg]
SuccessResult(ex) == [code |-> Code(ex), explanation |-> Explanation(ex), error |-> ""]

\* A caller's local state while it is not inside generate_website.
NoResult == [code |-> <<>>, explanation |-> <<>>, error |-> ""]

\* The JSON body of a response: the keys a handler does not send are empty.
Json(code, explanation, error, message) ==
    [code |-> code, explanation |-> explanation, error |-> error,
     message |-> message]

\* No response sent yet.
NoResponse == [status |-> 0, body |-> Json(<<>>, <<>>, "", "")]

\* AIWebAgent.__init__ with the key k found in the argument or the environment.
AgentInit(k) ==
    /\ api_key = k
    /\ conversation_history = <<>>
    /\ generated_code = <<>>
    /\ clock = 0
    /\ pc = [t \in Tasks |-> "idle"]
    /\ user_request = [t \in Tasks |-> <<>>]
    /\ messages = [t \in Tasks |-> <<>>]
    /\ response_text = [t \in Tasks |-> <<>>]
    /\ result = [t \in Tasks |-> NoResult]
    /\ api_calls = [t \in Tasks |-> 0]
    /\ http_response = NoResponse

\* AIWebAgent.set_api_key
SetApiKey(k) ==
    /\ api_key' = k
    /\ UNCHANGED <<conversation_history, generated_code, clock, pc, user_request,
                   messages, response_text, result, response, extracted,
                   api_calls, http_response>>

\* AIWebAgent.generate_website, from the call up to the await of the external
\* call (or up to the return, when no credential is set).
GenerateWebsite(t, req) ==
    /\ pc[t] = "idle"
    /\ user_request' = [user_request EXCEPT ![t] = req]
    /\ IF ~HasKey(api_key)
       THEN /\ result' = [result EXCEPT ![t] = ErrorResult(MissingKeyError)]
            /\ pc' = [pc EXCEPT ![t] = "returned"]
            /\ UNCHANGED <<conversation_history, messages, api_calls>>
       ELSE /\ conversation_history' =
                   add_message(conversation_history, "user", req, clock)
            /\ messages' = [messages EXCEPT ![t] = BuildMessages(conversation_history')]
            /\ api_calls' = [api_calls EXCEPT ![t] = @ + 1]
            /\ pc' = [pc EXCEPT ![t] = "await"]
            /\ UNCHANGED result
    /\ UNCHANGED <<api_key, generated_code, clock, response_text, response,
                   extracted, http_response>>

\* A resumption that records the split pieces: the extracted code, not the raw
\* reply, goes into the history.
ApiReplyStoresCode(t, r) ==
    /\ pc[t] = "await"
    /\ response_text' = [response_text EXCEPT ![t] = r]
    /\ LET ex == extract_code_from_response(r)
       IN  /\ generated_code' = Code(ex)
           /\ conversation_history' =
                  add_message(conversation_history, "assistant", Code(ex), clock)
           /\ result' = [result EXCEPT ![t] = SuccessResult(ex)]
    /\ pc' = [pc EXCEPT ![t] = "returned"]
    /\ UNCHANGED <<api_key, clock, user_request, messages, response, extracted,
                   api_calls, http_response>>

\* _call_openai_api returns the reply r: generate_website resumes after the
\* await and runs to its return without another suspension point.
ApiReply(t, r) ==
    /\ pc[t] = "await"
    /\ response_text' = [response_text EXCEPT ![t] = r]
    /\ LET ex == extract_code_from_response(r)
       IN  /\ generated_code' = Code(ex)
           /\ conversation_history' =
                  add_message(conversation_history, "assistant", r, clock)
           /\ result' = [result EXCEPT ![t] = SuccessResult(ex)]
    /\ pc' = [pc EXCEPT ![t] = "returned"]
    /\ UNCHANGED <<api_key, clock, user_request, messages, response, extracted,
                   api_calls, http_response>>

\* An except clause that rolls the user message back.
ApiFailRollback(t, e) ==
    /\ pc[t] = "await"
    /\ result' = [result EXCEPT ![t] = ErrorResult(ErrorPrefix \o e)]
    /\ pc' = [pc EXCEPT ![t] = "returned"]
    /\ conversation_history' =
           SubSeq(conversation_history, 1, Len(conversation_history) - 1)
    /\ UNCHANGED <<api_key, generated_code, clock,
                   user_request, messages, response_text, response, extracted,
                   api_calls, http_response>>

\* An except clause that also forgets the last generated code.
ApiFailResetsCode(t, e) ==
    /\ pc[t] = "await"
    /\ result' = [result EXCEPT ![t] = ErrorResult(ErrorPrefix \o e)]
    /\ pc' = [pc EXCEPT ![t] = "returned"]
    /\ generated_code' = <<>>
    /\ UNCHANGED <<api_key, conversation_history, clock,
                   user_request, messages, response_text, response, extracted,
                   api_calls, http_response>>

\* An except clause that posts the request once more before it gives up.
ApiFailRetries(t, e) ==
    /\ pc[t] = "await"
    /\ IF api_calls[t] < 2
       THEN /\ api_calls' = [api_calls EXCEPT ![t] = @ + 1]
            /\ UNCHANGED <<result, pc>>
       ELSE /\ result' = [result EXCEPT ![t] = ErrorResult(ErrorPrefix \o e)]
            /\ pc' = [pc EXCEPT ![t] = "returned"]
            /\ UNCHANGED api_calls
    /\ UNCHANGED <<api_key, conversation_history, generated_code, clock,
                   user_request, messages, response_text, response, extracted,
                   http_response>>

\* _call_openai_api raises e (transport error, raise_for_status, or a body
\* without choices[0].message.content): the except clause builds the result.
ApiFail(t, e) ==
    /\ pc[t] = "await"
    /\ result' = [result EXCEPT ![t] = ErrorResult(ErrorPrefix \o e)]
    /\ pc' = [pc EXCEPT ![t] = "returned"]
    /\ UNCHANGED <<api_key, conversation_history, generated_code, clock,
                   user_request, messages, response_text, response, extracted,
                   api_calls, http_response>>

\* The caller has taken the returned dictionary; its frame is gone.
Return(t) ==
    /\ pc[t] = "returned"
    /\ pc' = [pc EXCEPT ![t] = "idle"]
    /\ user_request' = [user_request EXCEPT ![t] = <<>>]
    /\ messages' = [messages EXCEPT ![t] = <<>>]
    /\ response_text' = [response_text EXCEPT ![t] = <<>>]
    /\ result' = [result EXCEPT ![t] = NoResult]
    /\ api_calls' = [api_calls EXCEPT ![t] = 0]
    /\ UNCHANGED <<api_key, conversation_history, generated_code, clock,
                   response, extracted, http_response>>

\* A clear_history that forgets to reset generated_code.
ClearHistoryKeepsCode ==
    /\ conversation_history' = <<>>
    /\ UNCHANGED <<api_key, generated_code, clock, pc, user_request, messages,
                   response_text, result, response, extracted, api_calls, http_response>>

\* AIWebAgent.clear_history
ClearHistory ==
    /\ conversation_history' = <<>>
    /\ generated_code' = <<>>
    /\ UNCHANGED <<api_key, clock, pc, user_request, messages, response_text,
                   result, response, extracted, api_calls, http_response>>

\* Time passes: datetime.now() reads a later instant from now on.
Tick ==
    /\ clock' = clock + 1
    /\ UNCHANGED <<api_key, conversation_history, generated_code, pc, user_request,
                   messages, response_text, result, response, extracted,
                   api_calls, http_response>>

----------------------------------------------------------------------------
(* Spec: one agent used by callers whose calls do not overlap.             *)

Keys == {"", "sk-1"}

Requests == {<<"a">>, <<"b">>}

\* Replies of the completion service: prose and an html fence with trailing
\* text; an untagged fence alone; prose without a fence.
ReplyHtml ==
    <<"o", "k", "\n">> \o HtmlOpen \o <<" ", "p", " ">> \o FenceClose \o <<"\n", "z">>
ReplyGeneric == GenericOpen \o <<"q">> \o FenceClose
ReplyProse == <<" ", "n", "o">>

Replies == {ReplyHtml, ReplyGeneric, ReplyProse}

Failures == {"ConnectError", "HTTPStatusError", "KeyError"}

\* No call of generate_website is in progress (a caller may still hold the
\* result of a finished one).
NoCallInProgress == \A t \in Tasks : pc[t] # "await"

\* Every caller is outside generate_website and holds no result.
AllIdle == \A t \in Tasks : pc[t] = "idle"

Init ==
    /\ \E k \in {None} \cup Keys : AgentInit(k)
    /\ response = <<>>
    /\ extracted = <<>>

Next ==
    \/ \E k \in Keys : NoCallInProgress /\ SetApiKey(k)
    \/ \E t \in Tasks, req \in Requests :
          /\ AllIdle
          /\ Len(conversation_history) + 2 <= MaxHistory
          /\ GenerateWebsite(t, req)
    \/ \E t \in Tasks, r \in Replies : ApiReply(t, r)
    \/ \E t \in Tasks, e \in Failures : ApiFail(t, e)
    \/ \E t \in Tasks : Return(t)
    \/ NoCallInProgress /\ ClearHistory
    \/ clock < MaxClock /\ Tick

Spec == Init /\ [][Next]_vars

----------------------------------------------------------------------------
(* ExtractSpec: extract_code_from_response called on every text made of at *)
(* most MaxSegs chunks.                                                    *)

\* The pieces the inputs are made of: the markers of both patterns, their
\* fragments, whitespace and an ordinary character.
Chunks ==
    { HtmlOpen, GenericOpen, FenceClose, Fence, <<Backquote>>,
      <<"h", "t", "m", "l">>, <<"\n">>, <<" ">>, <<"x">> }

RECURSIVE Concat(_)
Concat(ss) == IF ss = <<>> THEN <<>> ELSE Head(ss) \o Concat(Tail(ss))

Inputs == { Concat(ss) : ss \in UNION { [1..n -> Chunks] : n \in 0..MaxSegs } }

\* The tuple "extracted" before the call has returned.
NotCalled == <<>>

ExtractInit ==
    /\ AgentInit(None)
    /\ response \in Inputs
    /\ extracted = NotCalled

\* A call agent.extract_code_from_response(response).
ExtractCall ==
    /\ extracted = NotCalled
    /\ extracted' = extract_code_from_response(response)
    /\ UNCHANGED <<agent_vars, response>>

ExtractNext == ExtractCall

ExtractSpec == ExtractInit /\ [][ExtractNext]_vars

----------------------------------------------------------------------------
(* TagSpec: extract_code_from_response called on replies made of complete  *)
(* code blocks, each opened with a tag other than "html".                  *)

MaxBlocks == 2

\* Tags that neither pattern names.
OtherTags == { <<"j", "s">>, <<"H", "T", "M", "L">> }

BlockBodies == { <<"a">>, <<"b">> }

\* A complete block: the marker with its tag, the body on its own line, the
\* closing marker on the next line.
Block(tag, body) == Fence \o tag \o <<"\n">> \o body \o FenceClose

Blocks == { Block(tag, body) : tag \in OtherTags, body \in BlockBodies }

\* The text in front of the first block.
Leads == { <<>>, <<"p", "\n">> }

\* The text between the closing marker of a block and the next block.
Betweens == { <<"\n">>, <<"\n", "m", "\n">> }

LaterBlocks == { sep \o blk : sep \in Betweens, blk \in Blocks }

TaggedReplies ==
    { lead \o first \o Concat(rest) :
        lead \in Leads, first \in Blocks,
        rest \in UNION { [1..n -> LaterBlocks] : n \in 0..(MaxBlocks - 1) } }

TagInit ==
    /\ AgentInit(None)
    /\ response \in TaggedReplies
    /\ extracted = NotCalled

TagNext == ExtractCall

TagSpec == TagInit /\ [][TagNext]_vars

----------------------------------------------------------------------------
(* WindowSpec: a configured agent whose conversation grows past the        *)
(* context window.                                                         *)

WindowReplies == {ReplyGeneric}

WindowFailures == {"ConnectError"}

WindowInit ==
    /\ AgentInit("sk-1")
    /\ response = <<>>
    /\ extracted = <<>>

WindowNext ==
    \/ \E t \in Tasks, req \in Requests :
          /\ AllIdle
          /\ Len(conversation_history) + 2 <= WindowMaxHistory
          /\ GenerateWebsite(t, req)
    \/ \E t \in Tasks, r \in WindowReplies : ApiReply(t, r)
    \/ \E t \in Tasks, e \in WindowFailures : ApiFail(t, e)
    \/ \E t \in Tasks : Return(t)

WindowSpec == WindowInit /\ [][WindowNext]_vars

----------------------------------------------------------------------------
(* The agent with an external call that always ends. The client of          *)
(* _call_openai_api has a timeout of 60 seconds, so the awaited call either  *)
(* returns or raises, and the event loop then resumes the waiting            *)
(* coroutine; a caller that received the result goes on.                     *)

FairMaxHistory == 4

\* The external call of t ends: a reply or an exception.
CallCompletes(t) ==
    \/ \E r \in Replies : ApiReply(t, r)
    \/ \E e \in Failures : ApiFail(t, e)

FairNext ==
    \/ \E k \in Keys : NoCallInProgress /\ SetApiKey(k)
    \/ \E t \in Tasks, req \in Requests :
          /\ AllIdle
          /\ Len(conversation_history) + 2 <= FairMaxHistory
          /\ GenerateWebsite(t, req)
    \/ \E t \in Tasks : CallCompletes(t)
    \/ \E t \in Tasks : Return(t)
    \/ NoCallInProgress /\ ClearHistory

FairSpec ==
    /\ Init
    /\ [][FairNext]_vars
    /\ \A t \in Tasks : WF_vars(CallCompletes(t)) /\ WF_vars(Return(t))

----------------------------------------------------------------------------
(* The web server (src/agent/server.py): request handlers that share one   *)
(* agent. A handler runs without interruption except at an await, so chat  *)
(* requests overlap only while they wait for the external call.            *)

ChatKeyError == "API key not set. Please provide an API key."

ClearedResponse ==
    [status |-> 200, body |-> Json(<<>>, <<>>, "", "History cleared successfully")]

ConfirmResponse ==
    [status |-> 400,
     body |-> Json(<<>>, <<>>, "Please set confirm=true to clear history", "")]

\* A clear endpoint that does not look at the confirm flag.
ClearEndpointIgnoresConfirm(confirm) ==
    /\ conversation_history' = <<>>
    /\ generated_code' = <<>>
    /\ http_response' = ClearedResponse
    /\ UNCHANGED <<api_key, clock, pc, user_request, messages, response_text,
                   result, response, extracted, api_calls>>

\* POST /api/clear with the flag confirm.
ClearEndpoint(confirm) ==
    /\ IF confirm
       THEN /\ conversation_history' = <<>>
            /\ generated_code' = <<>>
            /\ http_response' = ClearedResponse
       ELSE /\ http_response' = ConfirmResponse
            /\ UNCHANGED <<conversation_history, generated_code>>
    /\ UNCHANGED <<api_key, clock, pc, user_request, messages, response_text,
                   result, response, extracted, api_calls>>

\* A chat handler that prepares the outbound list before it appends the user
\* message.
ChatBuildsFirst(t, req, k) ==
    /\ pc[t] = "idle"
    /\ api_key' = IF HasKey(k) THEN k ELSE api_key
    /\ IF ~HasKey(api_key')
       THEN /\ http_response' = [status |-> 400,
                                 body |-> Json(<<>>, <<>>, ChatKeyError, "")]
            /\ UNCHANGED <<conversation_history, messages, api_calls, pc,
                           user_request>>
       ELSE /\ user_request' = [user_request EXCEPT ![t] = req]
            /\ messages' = [messages EXCEPT ![t] = BuildMessages(conversation_history)]
            /\ conversation_history' =
                   add_message(conversation_history, "user", req, clock)
            /\ api_calls' = [api_calls EXCEPT ![t] = @ + 1]
            /\ pc' = [pc EXCEPT ![t] = "await"]
            /\ UNCHANGED http_response
    /\ UNCHANGED <<generated_code, clock, response_text, result, response,
                   extracted>>

\* POST /api/chat with the message req and the optional key k, up to the await
\* inside generate_website (or up to the 400 response when no key is set).
Chat(t, req, k) ==
    /\ pc[t] = "idle"
    /\ api_key' = IF HasKey(k) THEN k ELSE api_key
    /\ IF ~HasKey(api_key')
       THEN /\ http_response' = [status |-> 400,
                                 body |-> Json(<<>>, <<>>, ChatKeyError, "")]
            /\ UNCHANGED <<conversation_history, messages, api_calls, pc,
                           user_request>>
       ELSE /\ user_request' = [user_request EXCEPT ![t] = req]
            /\ conversation_history' =
                   add_message(conversation_history, "user", req, clock)
            /\ messages' = [messages EXCEPT ![t] = BuildMessages(conversation_history')]
            /\ api_calls' = [api_calls EXCEPT ![t] = @ + 1]
            /\ pc' = [pc EXCEPT ![t] = "await"]
            /\ UNCHANGED http_response
    /\ UNCHANGED <<generated_code, clock, response_text, result, response,
                   extracted>>

\* The external call of chat request t replies r: generate_website resumes,
\* returns to the handler, and the handler sends its response and ends, all
\* without another suspension point.
ChatReply(t, r) ==
    /\ pc[t] = "await"
    /\ LET ex == extract_code_from_response(r)
       IN  /\ generated_code' = Code(ex)
           /\ conversation_history' =
                  add_message(conversation_history, "assistant", r, clock)
           /\ http_response' =
                  [status |-> 200, body |-> Json(Code(ex), Explanation(ex), None, "")]
    /\ pc' = [pc EXCEPT ![t] = "idle"]
    /\ user_request' = [user_request EXCEPT ![t] = <<>>]
    /\ messages' = [messages EXCEPT ![t] = <<>>]
    /\ api_calls' = [api_calls EXCEPT ![t] = 0]
    /\ UNCHANGED <<api_key, clock, response_text, result, response, extracted>>

\* The external call of chat request t raises e: the handler answers 500 with
\* the error result of generate_website.
ChatFail(t, e) ==
    /\ pc[t] = "await"
    /\ http_response' =
           [status |-> 500, body |-> Json(<<>>, <<>>, ErrorPrefix \o e, "")]
    /\ pc' = [pc EXCEPT ![t] = "idle"]
    /\ user_request' = [user_request EXCEPT ![t] = <<>>]
    /\ messages' = [messages EXCEPT ![t] = <<>>]
    /\ api_calls' = [api_calls EXCEPT ![t] = 0]
    /\ UNCHANGED <<api_key, conversation_history, generated_code, clock,
                   response_text, result, response, extracted>>

ServerMaxHistory == 4

ChatKeys == {None, "sk-1"}

ServerReplies == {ReplyGeneric}

ServerFailures == {"ConnectError"}

\* Chat requests suspended on the external call.
Awaiting == {t \in Tasks : pc[t] = "await"}

ServerInit ==
    /\ \E k \in ChatKeys : AgentInit(k)
    /\ response = <<>>
    /\ extracted = <<>>

ServerNext ==
    \/ \E t \in Tasks, req \in Requests, k \in ChatKeys :
          /\ Len(conversation_history) + Cardinality(Awaiting) + 2 <= ServerMaxHistory
          /\ Chat(t, req, k)
    \/ \E t \in Tasks, r \in ServerReplies : ChatReply(t, r)
    \/ \E t \in Tasks, e \in ServerFailures : ChatFail(t, e)
    \/ \E confirm \in BOOLEAN : ClearEndpoint(confirm)

ServerSpec == ServerInit /\ [][ServerNext]_vars

----------------------------------------------------------------------------
(* Properties of generate_website and clear_history, under Spec.           *)

Last(s) == s[Len(s)]

IsUserMessage(m, req) == m.role = "user" /\ m.content = req

IsAssistantMessage(m, r) == m.role = "assistant" /\ m.content = r

\* C1: generate_website called while no credential is configured (api_key is
\* None or empty) returns at once a result with a non-empty error and empty
\* code and explanation; it never reaches the external call (no message list
\* is built, the caller does not wait), and conversation_history and
\* generated_code are exactly what they were before the call.
C1_MissingCredentialNoEffect ==
    [][\A t \in Tasks :
          (pc[t] = "idle" /\ pc'[t] # "idle" /\ api_key \in {None, ""})
          => /\ pc'[t] = "returned"
             /\ result'[t].error # ""
             /\ result'[t].code = <<>>
             /\ result'[t].explanation = <<>>
             /\ messages'[t] = <<>>
             /\ conversation_history' = conversation_history
             /\ generated_code' = generated_code]_vars

\* C1 witness: a call has returned the missing-credential error on an agent
\* that holds a conversation and generated code.
C1_Witness ==
    \E t \in Tasks :
        /\ pc[t] = "returned"
        /\ api_key \in {None, ""}
        /\ result[t].error = MissingKeyError
        /\ conversation_history # <<>>
        /\ generated_code # <<>>

\* C2: with a credential configured, when the external call fails the call
\* returns a non-empty error with empty code and explanation, and the history
\* has grown by exactly one message over the whole call: the start of the call
\* appended the user message carrying the request, and the failure leaves the
\* history as it is, that user message last.
C2_FailureKeepsUserMessage ==
    [][\A t \in Tasks :
          /\ (pc[t] = "idle" /\ pc'[t] = "await")
             => /\ Len(conversation_history') = Len(conversation_history) + 1
                /\ SubSeq(conversation_history', 1, Len(conversation_history))
                       = conversation_history
                /\ IsUserMessage(Last(conversation_history'), user_request'[t])
          /\ (\E e \in Failures : ApiFail(t, e))
             => /\ pc'[t] = "returned"
                /\ result'[t].error # ""
                /\ result'[t].code = <<>>
                /\ result'[t].explanation = <<>>
                /\ conversation_history' = conversation_history
                /\ conversation_history # <<>>
                /\ IsUserMessage(Last(conversation_history), user_request[t])]_vars

\* C2 witness: a failed call has returned after an earlier successful one; the
\* history ends with the assistant message followed by the new user message.
C2_Witness ==
    \E t \in Tasks :
        /\ pc[t] = "returned"
        /\ HasKey(api_key)
        /\ result[t].error \notin {"", MissingKeyError}
        /\ Len(conversation_history) = 3
        /\ conversation_history[2].role = "assistant"
        /\ IsUserMessage(conversation_history[3], user_request[t])

\* C3: with a credential configured, a call whose external call returns the
\* reply r grows the history by exactly two messages, the user message with
\* the request and then the assistant message with the raw reply; generated_code
\* is the code extracted from r; the result carries the extracted code and
\* explanation and an empty error.
C3_SuccessAppendsTwo ==
    [][\A t \in Tasks :
          /\ (pc[t] = "idle" /\ pc'[t] = "await")
             => /\ Len(conversation_history') = Len(conversation_history) + 1
                /\ SubSeq(conversation_history', 1, Len(conversation_history))
                       = conversation_history
                /\ IsUserMessage(Last(conversation_history'), user_request'[t])
          /\ \A r \in Replies :
                ApiReply(t, r)
                => /\ pc'[t] = "returned"
                   /\ conversation_history # <<>>
                   /\ IsUserMessage(Last(conversation_history), user_request[t])
                   /\ Len(conversation_history') = Len(conversation_history) + 1
                   /\ SubSeq(conversation_history', 1, Len(conversation_history))
                          = conversation_history
                   /\ IsAssistantMessage(Last(conversation_history'), r)
                   /\ generated_code' = Code(extract_code_from_response(r))
                   /\ result'[t].code = Code(extract_code_from_response(r))
                   /\ result'[t].explanation
                          = Explanation(extract_code_from_response(r))
                   /\ result'[t].error = ""]_vars

\* C3 witness: a call has returned the code of the html reply, whose raw text
\* (prose, fence and trailing text) is the last message of the history.
C3_Witness ==
    \E t \in Tasks :
        /\ pc[t] = "returned"
        /\ result[t].error = ""
        /\ result[t].code = <<"p">>
        /\ result[t].explanation = <<"o", "k">>
        /\ generated_code = <<"p">>
        /\ Len(conversation_history) = 4
        /\ IsUserMessage(conversation_history[3], user_request[t])
        /\ IsAssistantMessage(conversation_history[4], ReplyHtml)

\* Index of the last assistant message of h, 0 when there is none.
LastAssistantIndex(h) ==
    LET idx == {i \in 1..Len(h) : h[i].role = "assistant"}
    IN  IF idx = {} THEN 0 ELSE CHOOSE i \in idx : \A j \in idx : j <= i

\* C4: in every reachable state generated_code is the code extracted from the
\* reply of the most recent successful generation (the last assistant message
\* of the history, which holds that raw reply), and is empty when no generation
\* has succeeded since construction or since the last clear_history.
C4_GeneratedCodeIsLatest ==
    LET i == LastAssistantIndex(conversation_history)
    IN  generated_code =
            IF i = 0 THEN <<>>
            ELSE Code(extract_code_from_response(conversation_history[i].content))

\* C4 witness: after a successful generation a later one has failed; the code of
\* the successful one is still held.
C4_Witness ==
    \E t \in Tasks :
        /\ pc[t] = "returned"
        /\ result[t].error \notin {"", MissingKeyError}
        /\ Len(conversation_history) = 3
        /\ IsAssistantMessage(conversation_history[2], ReplyGeneric)
        /\ conversation_history[3].role = "user"
        /\ generated_code = <<"q">>

\* C5: when generate_website has appended the user message, giving a history of
\* N messages, the list sent to the external call is the system message followed
\* by the last min(N, 10) history messages (role and content) in their order; its
\* last element is the current request, at most 9 earlier messages precede it,
\* and building it changes nothing in the history beyond that one append.
C5_ContextWindow ==
    [][\A t \in Tasks :
          (pc[t] = "idle" /\ pc'[t] = "await")
          => LET h == conversation_history'
                 N == Len(h)
                 w == IF N <= 10 THEN N ELSE 10
                 sent == messages'[t]
             IN  /\ h = Append(conversation_history, h[N])
                 /\ Len(sent) = 1 + w
                 /\ sent[1] = [role |-> "system", content |-> system_prompt]
                 /\ \A k \in 1..w :
                       /\ sent[1 + k].role = h[N - w + k].role
                       /\ sent[1 + k].content = h[N - w + k].content
                 /\ sent[Len(sent)] = [role |-> "user", content |-> user_request'[t]]
                 /\ Len(sent) - 2 <= 9]_vars

\* C5 witness: a call is waiting on the external call with a history longer than
\* the window, whose first and last windows differ.
C5_Witness ==
    \E t \in Tasks :
        /\ pc[t] = "await"
        /\ Len(conversation_history) = 11
        /\ Len(messages[t]) = 11
        /\ conversation_history[1].content # conversation_history[3].content
        /\ conversation_history[2].role # conversation_history[11].role

\* C6: clear_history can always be called and, from any state, leaves
\* conversation_history empty (so every recent window is empty) and
\* generated_code empty, with the credential unchanged.
C6_ClearEmptiesAll ==
    /\ [](ENABLED ClearHistory)
    /\ [][ClearHistory
        => /\ conversation_history' = <<>>
           /\ \A k \in 1..ContextWindow :
                  SubSeq(conversation_history',
                         IF Len(conversation_history') - k + 1 > 1
                         THEN Len(conversation_history') - k + 1 ELSE 1,
                         Len(conversation_history')) = <<>>
           /\ generated_code' = <<>>
           /\ api_key' = api_key]_vars

\* C6 witness: a caller still holds the code of a successful generation while
\* the agent has been cleared since: history and code are empty, the credential
\* is still set.
C6_Witness ==
    \E t \in Tasks :
        /\ pc[t] = "returned"
        /\ result[t].code # <<>>
        /\ conversation_history = <<>>
        /\ generated_code = <<>>
        /\ HasKey(api_key)

\* C7: every step leaves conversation_history unchanged, appends exactly one
\* message at its end (the request of a caller entering generate_website, as a
\* user message, or the reply a caller receives, as an assistant message), or
\* replaces it by the empty sequence; earlier messages are never removed,
\* reordered or rewritten.
C7_AppendOnly ==
    [][\/ conversation_history' = conversation_history
       \/ conversation_history' = <<>>
       \/ /\ Len(conversation_history') = Len(conversation_history) + 1
          /\ SubSeq(conversation_history', 1, Len(conversation_history))
                 = conversation_history
          /\ \E t \in Tasks :
                \/ /\ pc[t] = "idle" /\ pc'[t] = "await"
                   /\ IsUserMessage(Last(conversation_history'), user_request'[t])
                \/ /\ pc[t] = "await" /\ pc'[t] = "returned"
                   /\ IsAssistantMessage(Last(conversation_history'),
                                         response_text'[t])]_vars

\* C7 witness: a history of three messages with two different user requests
\* around a failed and a successful generation.
C7_Witness ==
    /\ Len(conversation_history) = 3
    /\ conversation_history[1].role = "user"
    /\ conversation_history[2].role = "user"
    /\ conversation_history[1].content # conversation_history[2].content
    /\ conversation_history[3].role = "assistant"
    /\ conversation_history[1].timestamp < conversation_history[3].timestamp

----------------------------------------------------------------------------
(* Properties of extract_code_from_response, under ExtractSpec.            *)
(* Fences are described here by where their markers stand in the text,     *)
(* independently of the search that the extractor runs.                    *)

\* The literal lit stands in s right after the first i characters.
OccursAt(s, lit, i) ==
    /\ i + Len(lit) <= Len(s)
    /\ SubSeq(s, i + 1, i + Len(lit)) = lit

\* The fences of s opened by the marker open: <<i, j>> when the opening marker
\* stands at offset i and a closing marker (newline, three backquotes) stands
\* at offset j, after the opening marker.
FenceSpans(s, open) ==
    { p \in (0..Len(s)) \X (0..Len(s)) :
        /\ OccursAt(s, open, p[1])
        /\ p[2] >= p[1] + Len(open)
        /\ OccursAt(s, FenceClose, p[2]) }

HasFence(s, open) == FenceSpans(s, open) # {}

\* The first fence: the earliest opening marker, closed at the earliest
\* closing marker after it.
FirstFence(s, open) ==
    CHOOSE p \in FenceSpans(s, open) :
        \A q \in FenceSpans(s, open) :
            p[1] < q[1] \/ (p[1] = q[1] /\ p[2] <= q[2])

FenceBody(s, open) ==
    LET p == FirstFence(s, open) IN SubSeq(s, p[1] + Len(open) + 1, p[2])

TextBefore(s, open) == SubSeq(s, 1, FirstFence(s, open)[1])

\* s without its leading and trailing whitespace.
Trimmed(s) ==
    LET solid == {i \in 1..Len(s) : s[i] \notin {" ", "\n"}}
    IN  IF solid = {} THEN <<>>
        ELSE SubSeq(s, CHOOSE i \in solid : \A j \in solid : i <= j,
                       CHOOSE i \in solid : \A j \in solid : j <= i)

\* The opening marker of the fence the code is taken from: the html-tagged one
\* when the text has an html-tagged fence, else the untagged one.
FenceKind(s) == IF HasFence(s, HtmlOpen) THEN HtmlOpen ELSE GenericOpen

HasCodeFence(s) == HasFence(s, HtmlOpen) \/ HasFence(s, GenericOpen)

C10_ExtractionIdempotent ==
    (extracted # NotCalled /\ HasCodeFence(response))
    => LET c == Code(extracted)
           rewrapped == FenceKind(response) \o c \o FenceClose
       IN  Code(extract_code_from_response(rewrapped)) = c

\* C10 witness: the code was taken from an untagged fence, lost whitespace in
\* the extraction, and itself holds backquotes.
C10_Witness ==
    /\ extracted # NotCalled
    /\ ~HasFence(response, HtmlOpen)
    /\ HasFence(response, GenericOpen)
    /\ Code(extracted) # FenceBody(response, GenericOpen)
    /\ \E i \in 1..Len(Code(extracted)) : Code(extracted)[i] = Backquote

----------------------------------------------------------------------------
(* Properties of the server and of overlapping calls.                      *)

\* C11: a clear request without the confirm flag is answered with an error
\* (status 400) and leaves conversation_history, generated_code and the
\* credential unchanged; a step that empties a non-empty history or code is a
\* clear request with confirm set (or, for the code, a successful generation
\* whose reply holds no code).
C11_ClearNeedsConfirm ==
    [][/\ ClearEndpoint(FALSE)
          => /\ http_response'.status = 400
             /\ http_response'.body.error # ""
             /\ conversation_history' = conversation_history
             /\ generated_code' = generated_code
             /\ api_key' = api_key
       /\ (conversation_history # <<>> /\ conversation_history' = <<>>)
          => ClearEndpoint(TRUE)
       /\ (generated_code # <<>> /\ generated_code' = <<>>)
          => \/ ClearEndpoint(TRUE)
             \/ \E t \in Tasks : pc[t] = "await" /\ pc'[t] = "idle"]_vars

\* C11 witness: a clear request has been rejected and the agent still holds a
\* conversation, generated code and its credential.
C11_Witness ==
    /\ http_response = ConfirmResponse
    /\ Len(conversation_history) >= 2
    /\ generated_code # <<>>
    /\ HasKey(api_key)

\* C14: a generate_website call that ends with an error, whether for a missing
\* credential or for a failed external call, leaves generated_code and the
\* credential as they were; generated_code changes only in a step where a call
\* succeeds or where clear_history runs.
C14_FailureKeepsCode ==
    [][/\ \A t \in Tasks :
             (pc[t] # "returned" /\ pc'[t] = "returned" /\ result'[t].error # "")
             => /\ generated_code' = generated_code
                /\ api_key' = api_key
       /\ generated_code' # generated_code
          => \/ \E t \in Tasks : /\ pc[t] = "await"
                                 /\ pc'[t] = "returned"
                                 /\ result'[t].error = ""
                                 /\ generated_code' = result'[t].code
             \/ ClearHistory]_vars

\* C14 witness: a generation succeeded and the two calls after it failed; the
\* code of the successful one and the credential are still held.
C14_Witness ==
    \E t \in Tasks :
        /\ pc[t] = "returned"
        /\ result[t].error \notin {"", MissingKeyError}
        /\ Len(conversation_history) = 4
        /\ IsAssistantMessage(conversation_history[2], ReplyHtml)
        /\ conversation_history[3].role = "user"
        /\ conversation_history[4].role = "user"
        /\ generated_code = Code(extract_code_from_response(ReplyHtml))
        /\ generated_code # <<>>
        /\ HasKey(api_key)

\* C13: a generate_website invocation posts at most one request to the
\* external service: none when it returns the missing-credential error, exactly
\* one otherwise, also when that request failed. An invocation that waits for
\* the external call returns, once the call has replied or failed, one result
\* dictionary (a success, or a non-empty error); the caller then goes on and a
\* further invocation can start.
C13_OneCallOneResult ==
    /\ [](\A t \in Tasks :
            /\ api_calls[t] <= 1
            /\ pc[t] = "await" => api_calls[t] = 1 /\ result[t] = NoResult
            /\ pc[t] = "returned"
               => /\ api_calls[t] = 0 <=> result[t].error = MissingKeyError
                  /\ \/ result[t].error = ""
                     \/ result[t].code = <<>> /\ result[t].explanation = <<>>
            /\ pc[t] = "idle"
               => /\ result[t] = NoResult
                  /\ \A req \in Requests : ENABLED GenerateWebsite(t, req))
    /\ \A t \in Tasks : (pc[t] = "await") ~> (pc[t] = "returned")
    /\ \A t \in Tasks : (pc[t] = "returned") ~> (pc[t] = "idle")

\* C13 witness: after an earlier generation was served, a call whose single
\* request failed has returned its error result.
C13_Witness ==
    \E t \in Tasks :
        /\ pc[t] = "returned"
        /\ api_calls[t] = 1
        /\ result[t].error \notin {"", MissingKeyError}
        /\ Len(conversation_history) = 3
        /\ conversation_history[2].role = "assistant"

\* C12: for a reply whose code blocks all carry a tag other than "html" (two
\* blocks tagged "js", a block tagged "HTML"), extract_code_from_response
\* returns empty code and the entire raw text as explanation. The code does not
\* satisfy this: on a reply with two such blocks the second pattern takes the
\* closing marker of the first block, followed by a newline, as an opening.
C12_OtherTagsYieldNoCode ==
    extracted # NotCalled
    => /\ Code(extracted) = <<>>
       /\ Explanation(extracted) = response

\* Number of messages of h with the given role.
CountRole(h, role) == Cardinality({i \in 1..Len(h) : h[i].role = role})

\* A history in which requests and replies pair up: it does not start with an
\* assistant message and holds no more assistant than user messages.
HistoryShape(h) ==
    /\ h # <<>> => h[1].role = "user"
    /\ CountRole(h, "assistant") <= CountRole(h, "user")

\* C15: on the shared agent of the server, in every interleaving of chat
\* requests and confirmed clear requests, every assistant message follows the
\* user message of its own request: the history never starts with an assistant
\* message, never holds more assistant than user messages, and a reply is
\* recorded (history and generated_code) only while the user message of its
\* request is still in the history, so that after a clear generated_code stays
\* empty until a generation started after the clear succeeds. The server does
\* not satisfy this: nothing serializes the handlers.
C15_RepliesFollowTheirRequest ==
    [][/\ HistoryShape(conversation_history')
       /\ \A t \in Tasks :
             (pc[t] = "await" /\ generated_code' # <<>>
                /\ conversation_history' # conversation_history)
             => \E i \in 1..Len(conversation_history) :
                   IsUserMessage(conversation_history[i], user_request[t])]_vars

\* C16: a chat request that reaches generate_website appends its user message
\* and builds the outbound list in one step, also while other requests wait
\* for their external call: the list is the system message followed by the
\* last (at most 10) messages of the history as it is right after the append,
\* it ends with the request's own user message, and it stays as built while
\* the request waits.
C16_WindowEndsWithOwnRequest ==
    [][\A t \in Tasks :
          /\ (pc[t] = "idle" /\ pc'[t] = "await")
             => LET h == conversation_history'
                    sent == messages'[t]
                    w == IF Len(h) <= 10 THEN Len(h) ELSE 10
                IN  /\ h = Append(conversation_history,
                                  Message("user", user_request'[t], clock))
                    /\ Len(sent) = 1 + w
                    /\ sent[1] = [role |-> "system", content |-> system_prompt]
                    /\ \A i \in 1..w :
                          sent[1 + i] = ToDict(h[Len(h) - w + i])
                    /\ Last(sent) = [role |-> "user", content |-> user_request'[t]]
          /\ (pc[t] = "await" /\ pc'[t] = "await")
             => messages'[t] = messages[t]]_vars

\* C16 witness: two chat requests with different messages wait for the
\* external call at once; each holds a list ending with its own message, and
\* the list of the later one also holds the message of the earlier one.
C16_Witness ==
    \E t1, t2 \in Tasks :
        /\ pc[t1] = "await"
        /\ pc[t2] = "await"
        /\ user_request[t1] # user_request[t2]
        /\ Last(messages[t1]).content = user_request[t1]
        /\ Last(messages[t2]).content = user_request[t2]
        /\ Len(messages[t2]) = Len(messages[t1]) + 1
        /\ messages[t2][Len(messages[t2]) - 1].content = user_request[t1]

====
